---- MODULE Spec2Model ----
(***************************************************************************)
(* YouTube Watch Tracker: the content script's watch detector              *)
(* (src/content/contentScript.js) and the service worker's IndexedDB       *)
(* store (src/background/serviceWorker.js), both embedded in src/python.py.*)
(*                                                                         *)
(* The service worker's onMessage listener is an async function: it runs   *)
(* to its first await when the message arrives, and each later await       *)
(* (getVideo, putVideo, getAllVideos) is a point where other handlers run.  *)
(* One action models the code between two such points.                     *)
(***************************************************************************)
EXTENDS Integers, Sequences, FiniteSets, TLC

\* ---------------------------------------------------------------- bounds
MaxReqs == 2          \* messages other pages send to the service worker
MaxEmits == 2         \* record_watch messages the detector sends
MaxClock == 1         \* the wall clock takes the values 0..MaxClock
MaxTimers == 2        \* settle timers (setTimeout 700) pending at once
MaxEvents == 2        \* events of a record in the stores SpecExport starts from

\* ------------------------------------------------------- program constants
THRESHOLD_PERCENT == 70

\* ----------------------------------------------------------------- values
Ids == {"a", "b"}                 \* video ids (the v parameter of the URL)
NoId == "none"                    \* getVideoId() gave null or ""
Locations == Ids \cup {NoId}
Undefined == "undefined"          \* a property that is not there
\* msg.meta.title; a message without meta behaves as one with title "".
MetaTitles == {"", "T1", "T2"}
DocTitles == {"T1"}               \* document.title of a watch page
Null == [kind |-> "null"]         \* JavaScript null / IndexedDB "no record"

\* A JavaScript value that the || operator takes (non-empty string here).
Truthy(s) == s \notin {Undefined, ""}

\* video.duration: a number of seconds, NaN before the metadata is loaded,
\* Infinity for a live stream.
Finite(n) == [kind |-> "finite", value |-> n]
NaN == [kind |-> "NaN", value |-> 0]
Infinity == [kind |-> "Infinity", value |-> 0]

\* The media states a video element reports.
MediaStates ==
  { [currentTime |-> 6, duration |-> Finite(10)],
    [currentTime |-> 7, duration |-> Finite(10)],
    [currentTime |-> 8, duration |-> Finite(10)],
    [currentTime |-> 7, duration |-> Finite(0)],
    [currentTime |-> 7, duration |-> NaN],
    [currentTime |-> 7, duration |-> Infinity] }

MsgTypes == {"get_video", "record_watch", "get_all_videos", "export_json", "other"}

VARIABLES
  store,          \* IndexedDB object store 'videos': id -> record or Null
  reqs,           \* the messages the service worker has received, in order,
                  \* each with the state of its handler
  now,            \* the wall clock read by new Date()
  written,        \* the ids for which a store.put has succeeded
  lastAck,        \* per id the object of the record_watch answered last
  href,           \* the video id in location.href (or NoId)
  lastHref,       \* contentScript.js lastHref
  sessionMarked,  \* contentScript.js sessionMarked
  timers,         \* number of pending settle timers
  video,          \* the page's video element: present, flag, listeners,
                  \* attachVideoListeners calls that found it (up to 2)
  media,          \* video.currentTime and video.duration
  playing,        \* the id whose content the element holds (media is its
                  \* position and duration), NoId for none
  surfaced,       \* what updateButtonCount was last called with (0: never)
  sentThisSession,\* record_watch messages sent per id since the last reset
  lastEvent,      \* the media event handled last: none, timeupdate, ended
  revisit         \* how far the run is through "watch X, leave, come back,
                  \* watch X again", for the X watched first

workerVars == <<store, reqs, now, written, lastAck>>
detectorVars ==
  <<href, lastHref, sessionMarked, timers, video, media, playing, surfaced,
    sentThisSession, lastEvent, revisit>>
vars == <<store, reqs, now, written, lastAck, href, lastHref, sessionMarked,
          timers, video, media, playing, surfaced, sentThisSession, lastEvent,
          revisit>>

\* ------------------------------------------------------------ responses
NoResp == [kind |-> "none"]
RespNull == [kind |-> "null"]
RespRecord(r) == [kind |-> "record", value |-> r]
RespAck(n) == [kind |-> "ack", success |-> TRUE, watchCount |-> n]
RespList(l) == [kind |-> "list", value |-> l]
RespJson(j) == [kind |-> "json", json |-> j]

\* ------------------------------------------------- serviceWorker.js helpers

\* A getVideo that answers a missing record with a zero-valued one.
GetVideoResultZero(outcome, id) ==
  IF outcome = "requestError" THEN Null
  ELSE IF store[id] = Null
       THEN [ videoId |-> id, watchCount |-> 0, events |-> <<>>,
              title |-> Undefined, lastSeenAt |-> 0 ]
       ELSE store[id]

\* getVideo's promise value: r.result || null on success, null on r.onerror.
GetVideoResult(outcome, id) ==
  IF outcome = "requestError" THEN Null ELSE store[id]

\* existing = (await getVideo(id)) || { videoId, watchCount: 0, events: [] }
PrevCount(data) == IF data = Null THEN 0 ELSE data.watchCount
PrevEvents(data) == IF data = Null THEN <<>> ELSE data.events
PrevTitle(data) == IF data = Null THEN Undefined ELSE data.title

\* msg.meta && msg.meta.title || existing.title || document.title :
\* the last operand is evaluated when the first two are falsy, and a service
\* worker has no document, so the evaluation throws a ReferenceError.
TitleThrows(metaTitle, data) ==
  ~Truthy(metaTitle) /\ ~Truthy(PrevTitle(data))

NewTitle(metaTitle, data) ==
  IF Truthy(metaTitle) THEN metaTitle ELSE PrevTitle(data)

\* A record_watch that takes lastSeenAt from the first event, not the last.
UpdatedRecordFirstSeen(data, id, metaTitle, t) ==
  LET events == Append(PrevEvents(data), t) IN
  [ videoId    |-> id,
    watchCount |-> PrevCount(data) + 1,
    events     |-> events,
    title      |-> NewTitle(metaTitle, data),
    lastSeenAt |-> events[1] ]

\* An update that puts the new event first (unshift in place of push).
UpdatedRecordUnshift(data, id, metaTitle, t) ==
  LET events == <<t>> \o PrevEvents(data) IN
  [ videoId    |-> id,
    watchCount |-> PrevCount(data) + 1,
    events     |-> events,
    title      |-> NewTitle(metaTitle, data),
    lastSeenAt |-> events[Len(events)] ]

\* The record_watch branch between getVideo and putVideo.
UpdatedRecord(data, id, metaTitle, t) ==
  LET events == Append(PrevEvents(data), t) IN
  [ videoId    |-> id,
    watchCount |-> PrevCount(data) + 1,
    events     |-> events,
    title      |-> NewTitle(metaTitle, data),
    lastSeenAt |-> events[Len(events)] ]

\* getAllVideos: the cursor walks the store in key order.
RECURSIVE CursorWalk(_)
CursorWalk(S) ==
  IF S = {} THEN <<>>
  ELSE LET k == CHOOSE x \in S : \A y \in S : (x = "a") \/ (y # "a") IN
       <<store[k]>> \o CursorWalk(S \ {k})

AllVideos(outcome) ==
  IF outcome = "requestError" THEN <<>>
  ELSE CursorWalk({id \in Ids : store[id] # Null})

\* JSON text as its sequence of tokens: punctuation, string literals, number
\* literals. An event is the string toISOString gives for its time, which is
\* one string per time; the token keeps the time.
Punct(c) == [t |-> "punct", c |-> c]
StrTok(x) == [t |-> "string", s |-> x]
NumTok(n) == [t |-> "number", n |-> n]
IsoTok(ms) == [t |-> "isoString", ms |-> ms]

RECURSIVE Joined(_)
\* The texts of parts, separated by commas.
Joined(parts) ==
  IF parts = <<>> THEN <<>>
  ELSE IF Len(parts) = 1 THEN parts[1]
  ELSE parts[1] \o <<Punct(",")>> \o Joined(Tail(parts))

StringifyEvents(events) ==
  <<Punct("[")>> \o Joined([i \in 1..Len(events) |-> <<IsoTok(events[i])>>])
                 \o <<Punct("]")>>

\* A record as export_json would write it if it left the events out.
StringifyRecordNoEvents(r) ==
  <<Punct("{")>>
    \o <<StrTok("videoId"), Punct(":"), StrTok(r.videoId), Punct(",")>>
    \o <<StrTok("watchCount"), Punct(":"), NumTok(r.watchCount), Punct(",")>>
    \o <<StrTok("title"), Punct(":"), StrTok(r.title), Punct(",")>>
    \o <<StrTok("lastSeenAt"), Punct(":"), IsoTok(r.lastSeenAt)>>
    \o <<Punct("}")>>

\* JSON.stringify of one record: its properties in insertion order (videoId,
\* watchCount, events from the default object, then title, lastSeenAt).
StringifyRecord(r) ==
  <<Punct("{")>>
    \o <<StrTok("videoId"), Punct(":"), StrTok(r.videoId), Punct(",")>>
    \o <<StrTok("watchCount"), Punct(":"), NumTok(r.watchCount), Punct(",")>>
    \o <<StrTok("events"), Punct(":")>> \o StringifyEvents(r.events)
    \o <<Punct(",")>>
    \o <<StrTok("title"), Punct(":"), StrTok(r.title), Punct(",")>>
    \o <<StrTok("lastSeenAt"), Punct(":"), IsoTok(r.lastSeenAt)>>
    \o <<Punct("}")>>

\* JSON.stringify(all).
Stringify(list) ==
  <<Punct("[")>> \o Joined([i \in 1..Len(list) |-> StringifyRecord(list[i])])
                 \o <<Punct("]")>>

\* ------------------------------------------------------------- messages

\* A message as the onMessage listener leaves it at its first await. A
\* message with no type, or a type no branch takes, is answered null at once.
\* origin: who sent it (client: another page; timeupdate, ended: the detector's
\* handler of that event; followup: updateButtonCountLocal). afterAck: it
\* arrives after a record_watch for its id was answered.
NewReq(type, id, metaTitle, origin) ==
  [ type |-> type, videoId |-> id, title |-> metaTitle, origin |-> origin,
    afterAck |-> id \in Ids /\ lastAck[id] # Null,
    pc |-> IF type = "other" THEN "done" ELSE "get",
    obj |-> Null,
    resp |-> IF type = "other" THEN RespNull ELSE NoResp,
    fault |-> "none",
    delivered |-> FALSE ]

\* How a storage call ends: openDb rejects (req.onerror), the request on the
\* object store fails (r.onerror / cursor.onerror), or both succeed.
Outcomes == {"ok", "openError", "requestError"}
Healthy == {"ok"}

Init ==
  /\ store = [id \in Ids |-> Null]
  /\ reqs = <<>>
  /\ now = 0
  /\ written = {}
  /\ lastAck = [id \in Ids |-> Null]
  /\ href \in Locations
  /\ lastHref = href
  /\ sessionMarked = {}
  /\ timers = 1
  /\ video = [present |-> FALSE, flagged |-> FALSE, listeners |-> 0,
              attachCalls |-> 0]
  /\ media = [currentTime |-> 7, duration |-> NaN]
  /\ playing = NoId
  /\ surfaced = 0
  /\ sentThisSession = [id \in Ids |-> 0]
  /\ lastEvent = "none"
  /\ revisit = [id |-> NoId, phase |-> 0]

\* --------------------------------------------------- service worker steps

\* A page other than the detector (popup.js, shared/db.js, another tab's
\* content script) sends a message; the listener runs to its first await.
Send(types) ==
  /\ Len(reqs) < MaxReqs
  /\ \E type \in types, id \in Locations, t \in MetaTitles :
       /\ type \in {"get_video", "record_watch"} <=> id \in Ids
       /\ type # "record_watch" => t = ""
       /\ reqs' = Append(reqs, NewReq(type, id, t, "client"))
  /\ UNCHANGED <<store, now, written, lastAck>>
  /\ UNCHANGED detectorVars

ClientSend == Send(MsgTypes)

\* popup.js asks for the list (loadSummary) or the export (exportBtn).
QuerySend == Send({"get_all_videos", "export_json"})

\* A get_video branch that creates the default record where it finds none.
GetVideoSettleCreates(k, outs) ==
  /\ reqs[k].type = "get_video"
  /\ reqs[k].pc = "get"
  /\ \E outcome \in outs :
       IF outcome = "openError"
       THEN /\ reqs' = [reqs EXCEPT ![k].pc = "rejected", ![k].fault = outcome]
            /\ store' = store
       ELSE LET data == GetVideoResult(outcome, reqs[k].videoId) IN
            /\ reqs' = [reqs EXCEPT
                          ![k].pc = "done",
                          ![k].fault = outcome,
                          ![k].resp = IF data = Null THEN RespNull
                                      ELSE RespRecord(data)]
            /\ store' = IF data # Null THEN store
                        ELSE [store EXCEPT ![reqs[k].videoId] =
                                [ videoId |-> reqs[k].videoId,
                                  watchCount |-> 0, events |-> <<>>,
                                  title |-> Undefined,
                                  lastSeenAt |-> Undefined ]]
  /\ UNCHANGED <<now, written, lastAck>>
  /\ UNCHANGED detectorVars

\* get_video branch: await getVideo(msg.videoId); sendResponse(data).
\* When openDb rejects, getVideo rejects, the async function ends with an
\* unhandled rejection and sendResponse is never called.
GetVideoSettle(k, outs) ==
  /\ reqs[k].type = "get_video"
  /\ reqs[k].pc = "get"
  /\ \E outcome \in outs :
       IF outcome = "openError"
       THEN reqs' = [reqs EXCEPT ![k].pc = "rejected", ![k].fault = outcome]
       ELSE LET data == GetVideoResult(outcome, reqs[k].videoId) IN
            reqs' = [reqs EXCEPT
                       ![k].pc = "done",
                       ![k].fault = outcome,
                       ![k].resp = IF data = Null THEN RespNull
                                   ELSE RespRecord(data)]
  /\ UNCHANGED <<store, now, written, lastAck>>
  /\ UNCHANGED detectorVars

\* record_watch branch from await getVideo to the call of putVideo. The
\* timestamp is read here; the title expression may throw (pc "threw").
RecordWatchRead(k, outs) ==
  /\ reqs[k].type = "record_watch"
  /\ reqs[k].pc = "get"
  /\ \E outcome \in outs :
       IF outcome = "openError"
       THEN reqs' = [reqs EXCEPT ![k].pc = "rejected", ![k].fault = outcome]
       ELSE LET data == GetVideoResult(outcome, reqs[k].videoId) IN
            IF TitleThrows(reqs[k].title, data)
            THEN reqs' = [reqs EXCEPT ![k].pc = "threw", ![k].fault = outcome]
            ELSE reqs' = [reqs EXCEPT
                            ![k].pc = "put",
                            ![k].fault = outcome,
                            ![k].obj = UpdatedRecord(data, reqs[k].videoId,
                                                     reqs[k].title, now)]
  /\ UNCHANGED <<store, now, written, lastAck>>
  /\ UNCHANGED detectorVars

\* store.put(obj): the whole record replaces the stored one.
PutRecord(obj) == [store EXCEPT ![obj.videoId] = obj]

\* A record_watch branch that calls putVideo without await: the answer goes
\* out while the put has not reached the store.
RecordWatchWriteNoAwait(k, outs) ==
  /\ reqs[k].type = "record_watch"
  /\ reqs[k].pc = "put"
  /\ \E outcome \in outs :
       /\ lastAck' = [lastAck EXCEPT ![reqs[k].videoId] = reqs[k].obj]
       /\ reqs' = [reqs EXCEPT
                     ![k].pc = "done",
                     ![k].resp = RespAck(reqs[k].obj.watchCount)]
  /\ UNCHANGED <<store, written, now>>
  /\ UNCHANGED detectorVars

\* record_watch branch from await putVideo to sendResponse. putVideo rejects
\* when openDb or the put request fails; the store is then left as it was.
RecordWatchWrite(k, outs) ==
  /\ reqs[k].type = "record_watch"
  /\ reqs[k].pc = "put"
  /\ \E outcome \in outs :
       IF outcome = "ok"
       THEN /\ store' = PutRecord(reqs[k].obj)
            /\ written' = written \cup {reqs[k].videoId}
            /\ lastAck' = [lastAck EXCEPT ![reqs[k].videoId] = reqs[k].obj]
            /\ reqs' = [reqs EXCEPT
                          ![k].pc = "done",
                          ![k].resp = RespAck(reqs[k].obj.watchCount)]
       ELSE /\ UNCHANGED <<store, written, lastAck>>
            /\ reqs' = [reqs EXCEPT ![k].pc = "rejected", ![k].fault = outcome]
  /\ UNCHANGED now
  /\ UNCHANGED detectorVars

\* get_all_videos and export_json branches.
GetAllSettle(k, outs) ==
  /\ reqs[k].type \in {"get_all_videos", "export_json"}
  /\ reqs[k].pc = "get"
  /\ \E outcome \in outs :
       IF outcome = "openError"
       THEN reqs' = [reqs EXCEPT ![k].pc = "rejected", ![k].fault = outcome]
       ELSE LET all == AllVideos(outcome) IN
            reqs' = [reqs EXCEPT
                       ![k].pc = "done",
                       ![k].fault = outcome,
                       ![k].resp = IF reqs[k].type = "export_json"
                                   THEN RespJson(Stringify(all))
                                   ELSE RespList(all)]
  /\ UNCHANGED <<store, now, written, lastAck>>
  /\ UNCHANGED detectorVars

\* The wall clock advances.
Tick ==
  /\ now < MaxClock
  /\ now' = now + 1
  /\ UNCHANGED <<store, reqs, written, lastAck>>
  /\ UNCHANGED detectorVars

\* ------------------------------------------------------- content script

\* revisit after a record_watch for vid: phase 1 when it is the first of the
\* run, phase 4 when a timeupdate sends it after the return to that id.
AfterEmit(vid, trigger) ==
  IF revisit.phase = 0 THEN [id |-> vid, phase |-> 1]
  ELSE IF revisit.phase = 3 /\ revisit.id = vid /\ trigger = "timeupdate"
       THEN [revisit EXCEPT !.phase = 4]
       ELSE revisit

\* revisit after an observed navigation to loc: phase 2 when the watched id
\* was left for another id, phase 3 when it is back.
AfterNavigation(loc) ==
  IF revisit.phase = 1 /\ loc \in Ids /\ loc # revisit.id
  THEN [revisit EXCEPT !.phase = 2]
  ELSE IF revisit.phase = 2 /\ loc = revisit.id
       THEN [revisit EXCEPT !.phase = 3]
       ELSE revisit

\* Messages the detector has sent with record_watch.
DetectorWatches ==
  {k \in 1..Len(reqs) : reqs[k].origin \in {"timeupdate", "ended"}}

\* sendMessage(record_watch) followed by updateButtonCountLocal(vid), which
\* sends get_video without waiting for the first answer.
Emit(vid, title, trigger) ==
  /\ Cardinality(DetectorWatches) < MaxEmits
  /\ reqs' = reqs \o << NewReq("record_watch", vid, title, trigger),
                        NewReq("get_video", vid, "", "followup") >>
  /\ sessionMarked' = sessionMarked \cup {vid}
  /\ sentThisSession' = [sentThisSession EXCEPT ![vid] = @ + 1]
  /\ revisit' = AfterEmit(vid, trigger)

NoEmit == UNCHANGED <<reqs, sessionMarked, sentThisSession, revisit>>

\* const duration = video.duration || 0;
\* if (!duration || duration === Infinity) return;
DurationUsable(d) == d.kind = "finite" /\ d.value # 0

\* A threshold test with > in place of >=.
ThresholdReachedStrict(m) ==
  m.currentTime * 100 > THRESHOLD_PERCENT * m.duration.value

\* percent >= THRESHOLD_PERCENT, percent = (currentTime / duration) * 100,
\* for a usable duration (whole seconds: the quotient's rounding does not
\* change the comparison).
ThresholdReached(m) ==
  m.currentTime * 100 >= THRESHOLD_PERCENT * m.duration.value

\* The timeupdate handler's decision to send.
TimeUpdateSends(vid, m, marked) ==
  /\ vid # NoId
  /\ DurationUsable(m.duration)
  /\ ThresholdReached(m)
  /\ vid \notin marked

\* An ended handler without the test of the video id.
EndedSendsAnywhere(vid, marked) ==
  vid \notin marked

\* An ended handler without the sessionMarked test.
EndedSendsUnguarded(vid, marked) ==
  vid # NoId

\* The ended handler's decision to send.
EndedSends(vid, marked) ==
  /\ vid # NoId
  /\ vid \notin marked

\* The page's router changes location.href (SPA navigation, no reload).
Navigate ==
  /\ \E loc \in Locations : loc # href /\ href' = loc
  /\ UNCHANGED <<lastHref, sessionMarked, timers, video, media, playing,
                 surfaced, sentThisSession, lastEvent, revisit>>
  /\ UNCHANGED workerVars

\* hrefObserver's callback on a DOM mutation, and onNavigation.
Observe ==
  /\ href # lastHref
  /\ timers < MaxTimers
  /\ lastHref' = href
  /\ sessionMarked' = {}
  /\ sentThisSession' = [id \in Ids |-> 0]
  /\ timers' = timers + 1
  /\ revisit' = AfterNavigation(href)
  /\ UNCHANGED <<href, video, media, playing, surfaced, lastEvent>>
  /\ UNCHANGED workerVars

\* attachVideoListeners calls that found the element, counted up to 2.
Called(v) == IF v.attachCalls < 2 THEN v.attachCalls + 1 ELSE 2

\* attachVideoListeners without the _ytwt_listeners_attached test.
AttachVideoListenersAgain(v) ==
  IF ~v.present THEN v
  ELSE [v EXCEPT !.flagged = TRUE, !.listeners = @ + 1,
                 !.attachCalls = Called(v)]

\* attachVideoListeners on the element querySelector('video') finds: one
\* ended and one timeupdate listener (listeners counts the pairs).
AttachVideoListeners(v) ==
  IF ~v.present THEN v
  ELSE IF v.flagged THEN [v EXCEPT !.attachCalls = Called(v)]
  ELSE [v EXCEPT !.flagged = TRUE, !.listeners = @ + 1,
                 !.attachCalls = Called(v)]

\* A settle timer fires. insertButtonIfMissing is view glue: it changes no
\* detector state and its get_video does not change the store.
SettleTimer ==
  /\ timers > 0
  /\ timers' = timers - 1
  /\ video' = AttachVideoListeners(video)
  /\ UNCHANGED <<href, lastHref, sessionMarked, media, playing, surfaced,
                 sentThisSession, lastEvent, revisit>>
  /\ UNCHANGED workerVars

\* The player mounts a video element (a new one: no flag, no listeners).
VideoMount ==
  /\ video # [present |-> TRUE, flagged |-> FALSE, listeners |-> 0,
               attachCalls |-> 0]
  /\ video' = [present |-> TRUE, flagged |-> FALSE, listeners |-> 0,
               attachCalls |-> 0]
  /\ UNCHANGED <<href, lastHref, sessionMarked, timers, media, playing,
                 surfaced, sentThisSession, lastEvent, revisit>>
  /\ UNCHANGED workerVars

\* The position and duration the element reports change. The handlers read
\* nothing else of the medium, so every run of theirs is a run with Playback
\* alone changing media.
Playback ==
  /\ video.present
  /\ \E m \in MediaStates : m # media /\ media' = m
  /\ UNCHANGED <<href, lastHref, sessionMarked, timers, video, playing,
                 surfaced, sentThisSession, lastEvent, revisit>>
  /\ UNCHANGED workerVars

\* The player loads the content of the current location into the element
\* (unloads it where the location has no video): the position goes back to
\* 0 and the duration is NaN until the metadata is there.
LoadMedia ==
  /\ video.present
  /\ playing # href
  /\ playing' = href
  /\ media' = [currentTime |-> 0, duration |-> NaN]
  /\ UNCHANGED <<href, lastHref, sessionMarked, timers, video, surfaced,
                 sentThisSession, lastEvent, revisit>>
  /\ UNCHANGED workerVars

\* The element fires timeupdate and the attached handler runs.
TimeUpdate ==
  /\ video.present /\ video.listeners > 0
  /\ lastEvent' = "timeupdate"
  /\ IF TimeUpdateSends(href, media, sessionMarked)
     THEN \E title \in DocTitles : Emit(href, title, "timeupdate")
     ELSE NoEmit
  /\ UNCHANGED <<store, now, written, lastAck, href, lastHref, timers, video,
                 media, playing, surfaced>>

\* The element fires ended and the attached handler runs.
Ended ==
  /\ video.present /\ video.listeners > 0
  /\ lastEvent' = "ended"
  /\ IF EndedSends(href, sessionMarked)
     THEN \E title \in DocTitles : Emit(href, title, "ended")
     ELSE NoEmit
  /\ UNCHANGED <<store, now, written, lastAck, href, lastHref, timers, video,
                 media, playing, surfaced>>

\* updateButtonCountLocal's callback: the answer to the follow-up get_video.
FollowUpReply(k) ==
  /\ reqs[k].origin = "followup"
  /\ reqs[k].pc = "done"
  /\ ~reqs[k].delivered
  /\ reqs' = [reqs EXCEPT ![k].delivered = TRUE]
  /\ surfaced' = IF reqs[k].resp.kind = "record"
                    /\ reqs[k].resp.value.watchCount # 0
                 THEN reqs[k].resp.value.watchCount
                 ELSE surfaced
  /\ UNCHANGED <<store, now, written, lastAck, href, lastHref, sessionMarked,
                 timers, video, media, playing, sentThisSession, lastEvent,
                 revisit>>

\* ------------------------------------------------------- specifications

\* The service worker alone, serving other pages, with storage failures.
InitStore == Init /\ href = NoId
NextStore ==
  \/ ClientSend
  \/ \E k \in 1..Len(reqs) : GetVideoSettle(k, Outcomes)
  \/ \E k \in 1..Len(reqs) : RecordWatchRead(k, Outcomes)
  \/ \E k \in 1..Len(reqs) : RecordWatchWrite(k, Outcomes)
  \/ \E k \in 1..Len(reqs) : GetAllSettle(k, Outcomes)
  \/ Tick
SpecStore == InitStore /\ [][NextStore]_vars

\* The detector alone: its messages are sent and not yet handled.
NextDetector ==
  \/ Navigate
  \/ Observe
  \/ SettleTimer
  \/ VideoMount
  \/ Playback
  \/ TimeUpdate
  \/ Ended
SpecDetector == Init /\ [][NextDetector]_vars

\* The stores the service worker can have built: per id no record, or a
\* record with 1..MaxEvents events in time order, its count, a title that was
\* accepted and lastSeenAt.
EventLogs ==
  { e \in UNION { [1..n -> 0..MaxClock] : n \in 1..MaxEvents } :
      \A i \in 1..(Len(e) - 1) : e[i] <= e[i + 1] }
RecordsOf(id) ==
  { [ videoId |-> id, watchCount |-> Len(e), events |-> e, title |-> t,
      lastSeenAt |-> e[Len(e)] ] : e \in EventLogs, t \in {"T1", "T2"} }
StoreStates ==
  { st \in [Ids -> UNION { RecordsOf(id) : id \in Ids } \cup {Null}] :
      \A id \in Ids : st[id] # Null => st[id].videoId = id }

\* The service worker answering the popup's list and export requests, on any
\* store it can have built.
InitExport ==
  /\ store \in StoreStates
  /\ reqs = <<>>
  /\ now = 0
  /\ written = {id \in Ids : store[id] # Null}
  /\ lastAck = store
  /\ href = NoId
  /\ lastHref = href
  /\ sessionMarked = {}
  /\ timers = 1
  /\ video = [present |-> FALSE, flagged |-> FALSE, listeners |-> 0,
              attachCalls |-> 0]
  /\ media = [currentTime |-> 7, duration |-> NaN]
  /\ playing = NoId
  /\ surfaced = 0
  /\ sentThisSession = [id \in Ids |-> 0]
  /\ lastEvent = "none"
  /\ revisit = [id |-> NoId, phase |-> 0]
NextExport ==
  \/ QuerySend
  \/ \E k \in 1..Len(reqs) : GetAllSettle(k, Outcomes)
SpecExport == InitExport /\ [][NextExport]_vars

\* The moment the first settle timer has attached the listeners to the
\* element, which holds the content of the location and plays past the
\* threshold; nothing has been sent or stored yet.
InitWatching ==
  /\ store = [id \in Ids |-> Null]
  /\ reqs = <<>>
  /\ now = 0
  /\ written = {}
  /\ lastAck = [id \in Ids |-> Null]
  /\ href = "a"
  /\ lastHref = href
  /\ sessionMarked = {}
  /\ timers = 0
  /\ video = [present |-> TRUE, flagged |-> TRUE, listeners |-> 1,
              attachCalls |-> 1]
  /\ media = [currentTime |-> 7, duration |-> Finite(10)]
  /\ playing = href
  /\ surfaced = 0
  /\ sentThisSession = [id \in Ids |-> 0]
  /\ lastEvent = "none"
  /\ revisit = [id |-> NoId, phase |-> 0]

\* The detector on an element the player reuses across navigations, from
\* the same moment: the location changes first, the content follows.
NextStale ==
  \/ Navigate
  \/ Observe
  \/ SettleTimer
  \/ Playback
  \/ LoadMedia
  \/ TimeUpdate
  \/ Ended
SpecStale == InitWatching /\ [][NextStale]_vars

\* One tab's detector and the service worker, with a healthy storage, from
\* the same moment; the media state, the element and the clock stay as they
\* are.
Next ==
  \/ Navigate
  \/ Observe
  \/ SettleTimer
  \/ TimeUpdate
  \/ Ended
  \/ \E k \in 1..Len(reqs) : GetVideoSettle(k, Healthy)
  \/ \E k \in 1..Len(reqs) : RecordWatchRead(k, Healthy)
  \/ \E k \in 1..Len(reqs) : RecordWatchWrite(k, Healthy)
  \/ \E k \in 1..Len(reqs) : FollowUpReply(k)
Spec == InitWatching /\ [][Next]_vars

\* ----------------------------------------------------------------- claims

\* record_watch messages for id that were answered {success: true, ...}.
Acked(id) ==
  {k \in 1..Len(reqs) : /\ reqs[k].type = "record_watch"
                        /\ reqs[k].videoId = id
                        /\ reqs[k].pc = "done"}

\* No storage call of any handler has failed.
NoStorageFailure ==
  \A k \in 1..Len(reqs) : reqs[k].fault \in {"none", "ok"}

IsPrefix(s, t) == Len(s) <= Len(t) /\ SubSeq(t, 1, Len(s)) = s
IsProperPrefix(s, t) == Len(s) < Len(t) /\ IsPrefix(s, t)

\* C1: once N record_watch requests for the same videoId have been answered
\* with success, get_video(videoId) gives a record with watchCount = N and N
\* events (stated here for runs without any storage failure).
C1_CountEqualsSuccesses ==
  NoStorageFailure =>
    \A id \in Ids :
      Acked(id) # {} =>
        LET r == GetVideoResult("ok", id) IN
          /\ r # Null
          /\ r.watchCount = Cardinality(Acked(id))
          /\ Len(r.events) = Cardinality(Acked(id))

\* C2: every persisted record has events non-empty, watchCount = Len(events)
\* and lastSeenAt = the last element of events.
C2_RecordInvariant ==
  \A id \in Ids :
    store[id] # Null =>
      /\ store[id].events # <<>>
      /\ store[id].watchCount = Len(store[id].events)
      /\ store[id].lastSeenAt = store[id].events[Len(store[id].events)]

\* C2 witness: a record that two record_watch requests have written, with
\* two events at different times.
C2_Witness ==
  \E id \in Ids :
    /\ store[id] # Null
    /\ store[id].watchCount = 2
    /\ store[id].events[1] # store[id].events[2]

\* C3: within one session (between two navigation resets) the detector sends
\* at most one record_watch per video id, whatever timeupdate and ended
\* events arrive.
C3_OncePerSession ==
  \A id \in Ids : sentThisSession[id] <= 1

\* C3 witness: the one record_watch of the run was sent by a timeupdate at
\* the threshold, and an ended event handled later in that session for the
\* same id sent nothing.
C3_Witness ==
  /\ lastEvent = "ended"
  /\ href \in Ids
  /\ sentThisSession[href] = 1
  /\ Cardinality(DetectorWatches) = 1
  /\ \A k \in DetectorWatches :
       reqs[k].origin = "timeupdate" /\ reqs[k].videoId = href

\* The detector's record_watch messages for id.
WatchesOf(id) == {k \in DetectorWatches : reqs[k].videoId = id}

C5_AppendOnly ==
  [][ \A id \in Ids :
        store'[id] # store[id] =>
          /\ store'[id] # Null
          /\ IsProperPrefix(PrevEvents(store[id]), PrevEvents(store'[id])) ]_vars

\* C6: a request that met a storage failure (open error or request error) is
\* answered, and answered null: its handler never ends without sendResponse.
C6_FailureAnsweredNull ==
  \A k \in 1..Len(reqs) :
    reqs[k].fault \in {"openError", "requestError"} =>
      /\ reqs[k].pc \notin {"rejected", "threw"}
      /\ reqs[k].pc = "done" => reqs[k].resp = RespNull

\* The step in which the handler of get_video message k answers.
GetVideoAnswers(k) ==
  /\ k \in 1..Len(reqs)
  /\ reqs[k].type = "get_video"
  /\ reqs[k].pc = "get"
  /\ reqs'[k].pc = "done"

\* C7 as claimed: get_video(id) answers null if and only if no record_watch
\* for id has ever been persisted.
C7_NullIffNeverPersisted ==
  [][ \A k \in 1..Len(reqs) :
        GetVideoAnswers(k) =>
          (reqs'[k].resp = RespNull <=> reqs[k].videoId \notin written) ]_vars

\* C7 as amended: get_video(id) answers null if and only if no record_watch
\* for id has been persisted or the read request failed; any other answer is
\* the stored record, with watchCount >= 1 and events non-empty; and a
\* record exists for id exactly when a record_watch for id completed its
\* write.
C7_NullIffNeverPersistedOrReadError ==
  [][ /\ \A id \in Ids : (store'[id] # Null) <=> (id \in written')
      /\ \A k \in 1..Len(reqs) :
           GetVideoAnswers(k) =>
             /\ reqs'[k].resp = RespNull
                  <=> ( reqs[k].videoId \notin written
                        \/ reqs'[k].fault = "requestError" )
             /\ reqs'[k].resp # RespNull =>
                  /\ reqs'[k].resp = RespRecord(store[reqs[k].videoId])
                  /\ reqs'[k].resp.value.watchCount >= 1
                  /\ reqs'[k].resp.value.events # <<>> ]_vars

\* C7 witness: a get_video answered null because its read request failed,
\* for an id whose record is persisted.
C7_Witness ==
  \E k \in 1..Len(reqs) :
    /\ reqs[k].type = "get_video"
    /\ reqs[k].pc = "done"
    /\ reqs[k].fault = "requestError"
    /\ reqs[k].resp = RespNull
    /\ reqs[k].videoId \in written
    /\ store[reqs[k].videoId] # Null

\* A step in which the timeupdate handler ran (and something changed).
TimeUpdateHandled ==
  /\ lastEvent' = "timeupdate"
  /\ lastEvent # "timeupdate" \/ reqs' # reqs

\* C8: a timeupdate sends record_watch for the current id if and only if
\* the id is resolvable, duration is finite and > 0, currentTime / duration
\* * 100 >= 70 and the id is not in the session-marked set; with a duration
\* of 0, NaN or Infinity only an ended event sends.
C8_TimeUpdateSendsIff ==
  [][ /\ TimeUpdateHandled =>
           /\ Len(reqs') > Len(reqs)
                <=> ( /\ href \in Ids
                      /\ media.duration.kind = "finite"
                      /\ media.duration.value > 0
                      /\ media.currentTime * 100 >= 70 * media.duration.value
                      /\ href \notin sessionMarked )
           /\ Len(reqs') > Len(reqs) =>
                /\ reqs'[Len(reqs) + 1].type = "record_watch"
                /\ reqs'[Len(reqs) + 1].videoId = href
      /\ ( /\ Len(reqs') > Len(reqs)
           /\ ( media.duration.kind # "finite" \/ media.duration.value = 0 ) )
         => lastEvent' = "ended" ]_vars

\* C8 witness: a timeupdate at the threshold has sent a record_watch, and
\* with a duration that is not usable an ended event has sent one for the
\* current id.
C8_Witness ==
  /\ lastEvent = "ended"
  /\ ~DurationUsable(media.duration)
  /\ \E k \in DetectorWatches : reqs[k].origin = "timeupdate"
  /\ \E k \in DetectorWatches :
       reqs[k].origin = "ended" /\ reqs[k].videoId = href

\* C9: the count the detector surfaces after sending record_watch is the
\* new watchCount of that record_watch: when the answer to the follow-up
\* get_video arrives, the record_watch sent just before it has computed its
\* new count and the answer carries that count.
C9_SurfacedIsNewCount ==
  \A k \in 1..Len(reqs) :
    ( reqs[k].origin = "followup" /\ reqs[k].delivered ) =>
      /\ reqs[k - 1].pc \in {"put", "done"}
      /\ reqs[k].resp.kind = "record"
      /\ reqs[k].resp.value.watchCount = reqs[k - 1].obj.watchCount

\* The step in which the handler of record_watch message k ends its read
\* without a storage failure.
RecordWatchReads(k) ==
  /\ k \in 1..Len(reqs)
  /\ reqs[k].type = "record_watch"
  /\ reqs[k].pc = "get"
  /\ reqs'[k].pc # "get"
  /\ reqs'[k].fault = "ok"

\* C10: every record_watch, also one with a missing or empty meta.title for
\* an id without a previous title, goes on to persist a record whose title
\* is meta.title when that is non-empty and the previous title otherwise,
\* with one more event.
C10_TitleKeptOrReplaced ==
  [][ \A k \in 1..Len(reqs) :
        RecordWatchReads(k) =>
          /\ reqs'[k].pc = "put"
          /\ reqs'[k].obj.title =
               IF reqs[k].title # "" THEN reqs[k].title
               ELSE PrevTitle(store[reqs[k].videoId])
          /\ reqs'[k].obj.watchCount =
               PrevCount(store[reqs[k].videoId]) + 1 ]_vars

\* JSON.parse on a token sequence: a value starts at position i; the result
\* is the value and the position after it. An object is kept as its sequence
\* of <<key, value>> members, an array as the sequence of its elements.
RECURSIVE ParseValue(_, _), ParseElements(_, _, _), ParseMembers(_, _, _)
ParseValue(toks, i) ==
  LET tk == toks[i] IN
  IF tk.t = "string" THEN [val |-> tk.s, next |-> i + 1]
  ELSE IF tk.t = "isoString" THEN [val |-> tk.ms, next |-> i + 1]
  ELSE IF tk.t = "number" THEN [val |-> tk.n, next |-> i + 1]
  ELSE IF tk.c = "["
       THEN IF toks[i + 1] = Punct("]")
            THEN [val |-> <<>>, next |-> i + 2]
            ELSE ParseElements(toks, i + 1, <<>>)
       ELSE IF toks[i + 1] = Punct("}")
            THEN [val |-> <<>>, next |-> i + 2]
            ELSE ParseMembers(toks, i + 1, <<>>)
ParseElements(toks, i, acc) ==
  LET v == ParseValue(toks, i) IN
  IF toks[v.next] = Punct(",")
  THEN ParseElements(toks, v.next + 1, Append(acc, v.val))
  ELSE [val |-> Append(acc, v.val), next |-> v.next + 1]
ParseMembers(toks, i, acc) ==
  LET v == ParseValue(toks, i + 2) IN
  IF toks[v.next] = Punct(",")
  THEN ParseMembers(toks, v.next + 1, Append(acc, <<toks[i].s, v.val>>))
  ELSE [val |-> Append(acc, <<toks[i].s, v.val>>), next |-> v.next + 1]
JsonParse(toks) == ParseValue(toks, 1).val

\* Whether a parsed object has the property, and the property's value.
Has(obj, key) == \E i \in 1..Len(obj) : obj[i][1] = key
Prop(obj, key) == obj[CHOOSE i \in 1..Len(obj) : obj[i][1] = key][2]

\* The (videoId, watchCount, events) triples of a parsed export and of a
\* list of records; a property that is not there reads as Undefined.
ParsedTriples(objs) ==
  { << IF Has(objs[i], "videoId") THEN Prop(objs[i], "videoId") ELSE Undefined,
       IF Has(objs[i], "watchCount") THEN Prop(objs[i], "watchCount") ELSE 0 - 1,
       IF Has(objs[i], "events") THEN Prop(objs[i], "events") ELSE <<0 - 1>> >>
    : i \in 1..Len(objs) }
ListTriples(list) ==
  { <<list[i].videoId, list[i].watchCount, list[i].events>> : i \in 1..Len(list) }

\* Requests of the given type that were answered after a storage call that
\* ended with outcome o.
Answered(type, o) ==
  { k \in 1..Len(reqs) :
      reqs[k].type = type /\ reqs[k].pc = "done" /\ reqs[k].fault = o }

C12_EventsInTimeOrder ==
  \A id \in Ids :
    store[id] # Null =>
      \A i \in 1..(Len(store[id].events) - 1) :
        store[id].events[i] <= store[id].events[i + 1]

\* C12 witness: two record_watch requests for one id were answered and its
\* record holds their two events, the later one last.
C12_Witness ==
  \E id \in Ids :
    /\ Cardinality({k \in 1..Len(reqs) :
          reqs[k].type = "record_watch" /\ reqs[k].videoId = id
          /\ reqs[k].pc = "done"}) = 2
    /\ Len(store[id].events) = 2
    /\ store[id].events[1] < store[id].events[2]

\* No record_watch for id other than request k is between its arrival and
\* its answer.
NoOtherWatchInFlight(k, id) ==
  \A j \in 1..Len(reqs) :
    (j # k /\ reqs[j].type = "record_watch" /\ reqs[j].videoId = id)
      => reqs[j].pc \notin {"get", "put"}

\* Request k, a get_video or record_watch that arrived after a record_watch
\* for its id was answered, ends its read in this step with no other
\* record_watch for the id in flight.
ReadsAfterAck(k) ==
  /\ reqs[k].type \in {"get_video", "record_watch"}
  /\ reqs[k].afterAck
  /\ reqs[k].pc = "get"
  /\ reqs'[k].pc # "get"
  /\ NoOtherWatchInFlight(k, reqs[k].videoId)

\* What request k has read is the record of the record_watch answered last:
\* get_video answers it, record_watch builds its update from it.
ObservedLastAck(k) ==
  LET acked == lastAck[reqs[k].videoId] IN
  IF reqs[k].type = "get_video"
  THEN reqs'[k].pc = "done" /\ reqs'[k].resp = RespRecord(acked)
  ELSE /\ reqs'[k].pc = "put"
       /\ reqs'[k].obj.watchCount = acked.watchCount + 1
       /\ reqs'[k].obj.events = Append(acked.events, now)

C14_OneHandlerPair ==
  /\ video.listeners <= 1
  /\ video.flagged <=> video.listeners = 1
  /\ video.attachCalls >= 1 => video.listeners = 1

\* C14 witness: attachVideoListeners has run twice on the element.
C14_Witness == video.present /\ video.attachCalls = 2 /\ video.listeners = 1

\* C15: while the location has no video id, no step (a timeupdate or ended
\* event among them) sends a message or adds to sessionMarked.
C15_NoIdNoWatch ==
  [][href = NoId => (reqs' = reqs /\ sessionMarked' \subseteq sessionMarked)]_vars

\* C15 witness: the ended handler has run with the location without video
\* id (nothing was ever sent, and ended on a video id would have sent).
C15_Witness ==
  /\ href = NoId
  /\ lastEvent = "ended"
  /\ video.listeners = 1
  /\ reqs = <<>>

\* C16: the step in which a get_video, get_all_videos or export_json
\* request ends its storage call leaves the store as it was.
C16_ReadsLeaveStore ==
  [][(\E k \in 1..Len(reqs) :
        /\ reqs[k].type \in {"get_video", "get_all_videos", "export_json"}
        /\ reqs[k].pc = "get"
        /\ reqs'[k].pc # "get") => store' = store]_vars

\* C16 witness: a get_all_videos was answered with the records of a store
\* that is not empty.
C16_Witness ==
  \E k \in Answered("get_all_videos", "ok") :
    /\ reqs[k].resp.value # <<>>
    /\ reqs[k].resp.value = AllVideos("ok")

\* C17: the detector sends record_watch for X only while the element holds
\* the content of X: an event that carries the previous item's position and
\* duration sends nothing for the new location.
C17_SendsForPlayedContent ==
  [][\A k \in (Len(reqs) + 1)..Len(reqs') :
       reqs'[k].type = "record_watch" => reqs'[k].videoId = playing]_vars

\* C18: without a storage failure no handler ends without its answer, and a
\* message of missing or unknown type is answered null at once.
C18_AnsweredUnlessStorageFails ==
  \A k \in 1..Len(reqs) :
    reqs[k].fault \in {"none", "ok"} =>
      /\ reqs[k].pc \in {"get", "put", "done"}
      /\ reqs[k].type = "other" =>
           (reqs[k].pc = "done" /\ reqs[k].resp = RespNull)

====
